---- MODULE Spec2Model ----
(***************************************************************************)
(* Model of the risk-scoring and ETA-adjustment engine of santa-maps:      *)
(* calculate_risk_score, merge_route_and_weather and                       *)
(* fetch_real_weather_data of agent.py, and the /api/optimize handler      *)
(* optimize_route of server.py.                                            *)
(*                                                                         *)
(* Numbers.  The code computes in binary floating point; the model keeps   *)
(* every quantity as an exact integer in a fixed unit:                     *)
(*   risk_multiplier            hundredths        (1.40 is 140)            *)
(*   duration_seconds           seconds (integer, as the callers supply)   *)
(*   distance_km                kilometres (integer)                       *)
(*   unrounded hours            numerator over 360000 (HourDen)            *)
(*   unrounded miles            numerator over 1000000 (MileDen)           *)
(*   round(x, 2) results        hundredths                                 *)
(*   round(x) results           units                                      *)
(***************************************************************************)
EXTENDS Integers, Sequences, FiniteSets, TLC

VARIABLES
    pc,                 \* "risk" / "merge" / "optimize" / "fetch" before or
                        \* during the call named, "risk_done" /
                        \* "merge_done" / "optimize_done" / "fetch_done"
                        \* once it has returned
    weather_data,       \* argument of calculate_risk_score
    verdict,            \* its return value, None before the call
    legs_data,          \* first argument of merge_route_and_weather
    weather_data_list,  \* second argument of merge_route_and_weather
    result,             \* its return value, None before the call
    engine_calls,       \* number of calls of merge_route_and_weather made
    city_ids,           \* the "cities" list of the /api/optimize request
    selected_cities,    \* optimize_route: the city objects found
    response,           \* optimize_route: the response returned
    destination_cities, \* argument of fetch_real_weather_data
    lookups             \* outcome of runner.run for each destination city

vars == <<pc, weather_data, verdict, legs_data, weather_data_list, result,
          engine_calls, city_ids, selected_cities, response,
          destination_cities, lookups>>

None == "None"

\* ------------------------------------------------------------------ bounds
MaxLegs == 3

\* --------------------------------------------------------------- constants
PrecipThreshold == 70
WindThreshold == 40
ClearMultiplier == 100
SnowMultiplier == 140
PrecipMultiplier == 130
WindMultiplier == 115
SecondsPerHour == 3600
MilesPerKmMicro == 621371

HourDen == SecondsPerHour * 100
MileDen == 1000000

\* ----------------------------------------------------------------- helpers
Max(a, b) == IF a >= b THEN a ELSE b
Min(a, b) == IF a <= b THEN a ELSE b

\* dict.get(key, default); the variant ignores the default given
GetWrongDefault(d, k, default) == IF k \in DOMAIN d THEN d[k] ELSE 100
Get(d, k, default) == IF k \in DOMAIN d THEN d[k] ELSE default

\* round(num / den) for num >= 0, den > 0: the nearest integer.  Python
\* sends a tie that the double represents exactly to the even neighbour; a
\* decimal tie that the double does not represent exactly goes to the side
\* of the representation error.  The durations and distances enumerated
\* below produce no tie, so the result is the nearest integer either way.
Round(num, den) ==
    LET q == num \div den
        r == num % den
    IN  IF 2 * r < den THEN q
        ELSE IF 2 * r > den THEN q + 1
        ELSE IF q % 2 = 0 THEN q ELSE q + 1

RECURSIVE SumSeq(_)
SumSeq(s) == IF s = <<>> THEN 0 ELSE Head(s) + SumSeq(Tail(s))

\* ---------------------------------------------------- calculate_risk_score
snow_codes == (71..77) \cup {85, 86}

InitialVerdict ==
    [risk_level |-> "LOW", risk_color |-> "green",
     risk_multiplier |-> ClearMultiplier, risk_factors |-> <<>>]

\* variant of the snow/ice check: the level is raised, the multiplier is not
SnowCheckNoMultiplier(v, weather_code) ==
    IF weather_code \in snow_codes
    THEN [v EXCEPT !.risk_level = "HIGH", !.risk_color = "red",
                   !.risk_factors = Append(@, <<"Snow/ice conditions">>)]
    ELSE v
SnowCheck(v, weather_code) ==
    IF weather_code \in snow_codes
    THEN [v EXCEPT !.risk_level = "HIGH", !.risk_color = "red",
                   !.risk_multiplier = Max(@, SnowMultiplier),
                   !.risk_factors = Append(@, <<"Snow/ice conditions">>)]
    ELSE v

\* variant of the precipitation check: the candidate is added, not maximised
PrecipCheckSums(v, precip_prob) ==
    IF precip_prob > PrecipThreshold
    THEN [v EXCEPT !.risk_level = "HIGH", !.risk_color = "red",
                   !.risk_multiplier = @ + (PrecipMultiplier - ClearMultiplier),
                   !.risk_factors =
                       Append(@, <<"High precipitation (", precip_prob, "%)">>)]
    ELSE v
PrecipCheck(v, precip_prob) ==
    IF precip_prob > PrecipThreshold
    THEN [v EXCEPT !.risk_level = "HIGH", !.risk_color = "red",
                   !.risk_multiplier = Max(@, PrecipMultiplier),
                   !.risk_factors =
                       Append(@, <<"High precipitation (", precip_prob, "%)">>)]
    ELSE v

\* variants of the wind check: HIGH downgraded, factor dropped under HIGH,
\* colour set whatever the level
WindCheckDowngrades(v, wind_speed) ==
    IF wind_speed > WindThreshold
    THEN [v EXCEPT !.risk_level = "MEDIUM", !.risk_color = "yellow",
                   !.risk_multiplier = Max(@, WindMultiplier),
                   !.risk_factors =
                       Append(@, <<"High winds (", wind_speed, " km/h)">>)]
    ELSE v
WindCheckFactorSuppressed(v, wind_speed) ==
    IF wind_speed > WindThreshold
    THEN IF v.risk_level # "HIGH"
         THEN [v EXCEPT !.risk_level = "MEDIUM", !.risk_color = "yellow",
                        !.risk_multiplier = Max(@, WindMultiplier),
                        !.risk_factors =
                            Append(@, <<"High winds (", wind_speed, " km/h)">>)]
         ELSE [v EXCEPT !.risk_multiplier = Max(@, WindMultiplier)]
    ELSE v
WindCheckColorAlways(v, wind_speed) ==
    IF wind_speed > WindThreshold
    THEN [v EXCEPT !.risk_level = IF @ # "HIGH" THEN "MEDIUM" ELSE @,
                   !.risk_color = "yellow",
                   !.risk_multiplier = Max(@, WindMultiplier),
                   !.risk_factors =
                       Append(@, <<"High winds (", wind_speed, " km/h)">>)]
    ELSE v
WindCheck(v, wind_speed) ==
    IF wind_speed > WindThreshold
    THEN [v EXCEPT !.risk_level = IF @ # "HIGH" THEN "MEDIUM" ELSE @,
                   !.risk_color = IF v.risk_level # "HIGH" THEN "yellow" ELSE @,
                   !.risk_multiplier = Max(@, WindMultiplier),
                   !.risk_factors =
                       Append(@, <<"High winds (", wind_speed, " km/h)">>)]
    ELSE v

ClearCheck(v) ==
    IF v.risk_multiplier = ClearMultiplier
    THEN [v EXCEPT !.risk_factors = Append(@, <<"Clear conditions">>)]
    ELSE v

calculate_risk_score(w) ==
    LET precip_prob == Get(w, "precipitation_probability", 0)
        wind_speed == Get(w, "wind_speed_kmh", 0)
        weather_code == Get(w, "weather_code", 0)
    IN  ClearCheck(WindCheck(PrecipCheck(SnowCheck(InitialVerdict,
            weather_code), precip_prob), wind_speed))

\* ------------------------------------------------- merge_route_and_weather
\* round(x, 2) of x = num / den, in hundredths (den a multiple of 100)
Round2(num, den) == Round(num, den \div 100)

\* the unrounded locals of one loop iteration (agent.py lines 108-116)
DistanceMilesNum(leg) == Get(leg, "distance_km", 0) * MilesPerKmMicro
BaseEtaNum(leg) == Get(leg, "duration_seconds", 0) * 100
\* variant of the adjustment: the surcharge is taken off, not added
AdjustedSecondsNumDiscount(leg, risk_info) ==
    Get(leg, "duration_seconds", 0)
        * (2 * ClearMultiplier - risk_info.risk_multiplier)
AdjustedSecondsNum(leg, risk_info) ==
    Get(leg, "duration_seconds", 0) * risk_info.risk_multiplier
AdjustedEtaNum(leg, risk_info) == AdjustedSecondsNum(leg, risk_info)
\* variant of the delay: the difference of the two rounded ETAs
DelayFromRoundedEtas(leg, risk_info) ==
    (Round2(AdjustedEtaNum(leg, risk_info), HourDen)
        - Round2(BaseEtaNum(leg), HourDen)) * SecondsPerHour
DelayNum(leg, risk_info) == AdjustedEtaNum(leg, risk_info) - BaseEtaNum(leg)

EchoWeather(leg, weather) ==
    [location |-> Get(leg, "destination", None),
     condition |-> Get(weather, "condition", "Unknown"),
     precipitation_probability |-> Get(weather, "precipitation_probability", 0),
     wind_speed_kmh |-> Get(weather, "wind_speed_kmh", 0),
     temperature_celsius |-> Get(weather, "temperature_celsius", 0),
     weather_code |-> Get(weather, "weather_code", 0)]

\* leg_number of the iteration with 0-based enumerate() index i; the variant
\* forgets the + 1
LegNumberZeroBased(i) == i
LegNumber(i) == i + 1

\* one iteration of the loop; i is the 0-based index of enumerate()
LegObj(i, leg, weather) ==
    LET risk_info == calculate_risk_score(weather)
    IN  [leg_number |-> LegNumber(i),
         from |-> Get(leg, "origin", None),
         to |-> Get(leg, "destination", None),
         distance_km |-> Round2(Get(leg, "distance_km", 0) * 100, 100),
         distance_miles |-> Round2(DistanceMilesNum(leg), MileDen),
         base_duration_seconds |-> Get(leg, "duration_seconds", 0),
         base_eta_hours |-> Round2(BaseEtaNum(leg), HourDen),
         weather |-> EchoWeather(leg, weather),
         risk_level |-> risk_info.risk_level,
         risk_color |-> risk_info.risk_color,
         risk_multiplier |-> risk_info.risk_multiplier,
         risk_factors |-> risk_info.risk_factors,
         adjusted_duration_seconds |->
             Round(AdjustedSecondsNum(leg, risk_info), 100),
         adjusted_eta_hours |-> Round2(AdjustedEtaNum(leg, risk_info), HourDen),
         delay_hours |-> Round2(DelayNum(leg, risk_info), HourDen)]

\* variant of the pairing: every leg is scored on the first observation
MergedLegsFirstWeather(legs, weathers) ==
    [i \in 1..Min(Len(legs), Len(weathers)) |->
        LegObj(i - 1, legs[i], weathers[1])]
\* zip(legs_data, weather_data_list) stops at the shorter sequence
MergedLegs(legs, weathers) ==
    [i \in 1..Min(Len(legs), Len(weathers)) |->
        LegObj(i - 1, legs[i], weathers[i])]

Field(s, f) == [i \in DOMAIN s |-> s[i][f]]

\* variant of the count: the first leg is left out
CountLevelSkipsFirst(merged_legs, level) ==
    Cardinality({i \in DOMAIN merged_legs :
        i > 1 /\ merged_legs[i].risk_level = level})
CountLevel(merged_legs, level) ==
    Cardinality({i \in DOMAIN merged_legs : merged_legs[i].risk_level = level})

\* variant of the policy: a single HIGH leg already makes the route HIGH
OverallRiskAnyHigh(high_risk_count, medium_risk_count) ==
    IF high_risk_count >= 1 THEN "HIGH"
    ELSE IF medium_risk_count >= 3 THEN "MEDIUM"
    ELSE "LOW"
OverallRisk(high_risk_count, medium_risk_count) ==
    IF high_risk_count >= 2 THEN "HIGH"
    ELSE IF high_risk_count >= 1 \/ medium_risk_count >= 3 THEN "MEDIUM"
    ELSE "LOW"

\* variant of the total delay: the sum of the legs' rounded delays
TotalDelayFromLegDelays(merged_legs) == SumSeq(Field(merged_legs, "delay_hours"))
TotalDelay(merged_legs) ==
    SumSeq(Field(merged_legs, "adjusted_eta_hours"))
        - SumSeq(Field(merged_legs, "base_eta_hours"))

RouteSummary(merged_legs) ==
    LET total_distance_miles == SumSeq(Field(merged_legs, "distance_miles"))
        total_base_eta == SumSeq(Field(merged_legs, "base_eta_hours"))
        total_adjusted_eta == SumSeq(Field(merged_legs, "adjusted_eta_hours"))
        total_delay == TotalDelay(merged_legs)
        high_risk_count == CountLevel(merged_legs, "HIGH")
        medium_risk_count == CountLevel(merged_legs, "MEDIUM")
        low_risk_count == CountLevel(merged_legs, "LOW")
    IN  [total_distance_miles |-> Round2(total_distance_miles, 100),
         total_base_eta_hours |-> Round2(total_base_eta, 100),
         total_adjusted_eta_hours |-> Round2(total_adjusted_eta, 100),
         total_delay_hours |-> Round2(total_delay, 100),
         high_risk_legs |-> high_risk_count,
         medium_risk_legs |-> medium_risk_count,
         low_risk_legs |-> low_risk_count,
         overall_risk |-> OverallRisk(high_risk_count, medium_risk_count)]

merge_route_and_weather(legs, weathers) ==
    LET merged_legs == MergedLegs(legs, weathers)
    IN  [route_summary |-> RouteSummary(merged_legs), legs |-> merged_legs]

\* ------------------------------------------------------------------ inputs
\* a dict with the given optional entries; each option is {} or {value}
Dict(opts) ==
    [k \in {f \in DOMAIN opts : opts[f] # {}} |-> CHOOSE x \in opts[k] : TRUE]

Opt(S) == {{}} \cup {{x} : x \in S}

PrecipValues == {0, 70, 71, 100}
WindValues == {0, 40, 41, 60}
CodeValues == {0, 70, 71, 74, 77, 78, 84, 85, 86, 87}
ConditionValues == {"Light Rain"}

WeatherObservations ==
    {Dict([precipitation_probability |-> p, wind_speed_kmh |-> w,
           weather_code |-> c, condition |-> d]) :
        p \in Opt(PrecipValues), w \in Opt(WindValues),
        c \in Opt(CodeValues), d \in Opt(ConditionValues)}

NoFields == [k \in {} |-> 0]

RouteWeather ==
    {[location |-> "London, UK", condition |-> "Partly Cloudy",
      precipitation_probability |-> 45, wind_speed_kmh |-> 28,
      temperature_celsius |-> 2, weather_code |-> 3],
     [location |-> "Beijing, China", condition |-> "Windy",
      precipitation_probability |-> 30, wind_speed_kmh |-> 45,
      temperature_celsius |-> 0, weather_code |-> 2],
     [location |-> "London, UK", condition |-> "Light Rain",
      precipitation_probability |-> 75, wind_speed_kmh |-> 42,
      temperature_celsius |-> 6, weather_code |-> 61],
     [location |-> "Moscow, Russia", condition |-> "Heavy Snow",
      precipitation_probability |-> 80, wind_speed_kmh |-> 35,
      temperature_celsius |-> -8, weather_code |-> 73],
     NoFields}

RoutingLegs ==
    {[origin |-> "Paris, France", destination |-> "London, UK",
      distance_km |-> 344, duration_seconds |-> 1548],
     [origin |-> "London, UK", destination |-> "Moscow, Russia",
      distance_km |-> 4, duration_seconds |-> 15],
     [origin |-> "Moscow, Russia", destination |-> "Beijing, China",
      distance_km |-> 12, duration_seconds |-> 51],
     NoFields}

SeqsUpTo(S, n) == UNION {[1..k -> S] : k \in 0..n}

\* ------------------------------------------------ server.py optimize_route
\* bound on the length of the "cities" list of a request
MaxCities == 4

\* the entries of AVAILABLE_CITIES the requests below select; lat and lng
\* in units of 0.0001 degree
AVAILABLE_CITIES ==
    <<[id |-> "london", name |-> "London, UK", shortName |-> "London",
       lat |-> 515074, lng |-> -1278],
      [id |-> "paris", name |-> "Paris, France", shortName |-> "Paris",
       lat |-> 488566, lng |-> 23522]>>

\* the entry of CITY_DISTANCES between those cities
CITY_DISTANCES == [key \in {<<"Paris, France", "London, UK">>} |-> 344]

\* ids a request may carry: two known ones and one matching no city
CityIds == {"london", "paris", "atlantis"}

\* the index of the first city with c[field] = value, 0 if there is none
FirstIndex(field, value) ==
    LET hits == {k \in DOMAIN AVAILABLE_CITIES :
                     AVAILABLE_CITIES[k][field] = value}
    IN  IF hits = {} THEN 0
        ELSE CHOOSE k \in hits : \A h \in hits : k <= h

\* haversine_distance: 0 for coinciding points; the great-circle distance
\* of London and Paris otherwise (not reached: that pair is in the table)
haversine_distance(lat1, lon1, lat2, lon2) ==
    IF lat1 = lat2 /\ lon1 = lon2 THEN 0 ELSE 344

get_distance(origin, destination) ==
    LET key == <<origin, destination>>
        reverse_key == <<destination, origin>>
        o == FirstIndex("name", origin)
        d == FirstIndex("name", destination)
    IN  IF key \in DOMAIN CITY_DISTANCES THEN CITY_DISTANCES[key]
        ELSE IF reverse_key \in DOMAIN CITY_DISTANCES
             THEN CITY_DISTANCES[reverse_key]
        ELSE IF o # 0 /\ d # 0
             THEN haversine_distance(
                      AVAILABLE_CITIES[o].lat, AVAILABLE_CITIES[o].lng,
                      AVAILABLE_CITIES[d].lat, AVAILABLE_CITIES[d].lng)
        ELSE 5000

\* weather_presets of generate_mock_weather, keyed by the short name that
\* city_name.split(",")[0].strip() yields
weather_presets ==
    [London |-> [temp |-> 6, precip |-> 75, wind |-> 42, code |-> 61,
                 condition |-> "Light Rain"],
     Paris |-> [temp |-> 8, precip |-> 55, wind |-> 25, code |-> 45,
                condition |-> "Foggy"]]

ShortName(city_name) ==
    CASE city_name = "London, UK" -> "London"
      [] city_name = "Paris, France" -> "Paris"

\* the three random.randint draws of one generate_mock_weather call:
\* temp in -3..3, precip in -10..10, wind in -5..10; the draws below put
\* London on either side of both thresholds
RandomDraws ==
    [temp : {-3, 3}, precip : {-5, -4}, wind : {-2, -1}]

generate_mock_weather(city_name, draw) ==
    LET base == weather_presets[ShortName(city_name)]
    IN  [location |-> city_name,
         temperature_celsius |-> base.temp + draw.temp,
         precipitation_probability |->
             Max(0, Min(100, base.precip + draw.precip)),
         wind_speed_kmh |-> Max(0, base.wind + draw.wind),
         weather_code |-> base.code,
         condition |-> base.condition]

\* the words get_weather_icon looks for that occur in condition.lower()
ConditionWords(condition) ==
    CASE condition = "Light Rain" -> {"rain"}
      [] condition = "Foggy" -> {"fog"}
      [] OTHER -> {}

get_weather_icon(condition, code) ==
    LET words == ConditionWords(condition)
    IN  IF "snow" \in words \/ code \in 71..77 \/ code \in {85, 86}
        THEN "snow"
        ELSE IF "rain" \in words \/ "shower" \in words
                \/ code \in {61, 63, 65, 80, 81, 82}
        THEN "rain"
        ELSE IF "thunder" \in words \/ "storm" \in words
                \/ code \in {95, 96, 99}
        THEN "thunder"
        ELSE IF "fog" \in words \/ code \in {45, 48} THEN "fog"
        ELSE IF "cloud" \in words \/ code \in {2, 3} THEN "cloud"
        ELSE IF "wind" \in words THEN "wind"
        ELSE "sun"

\* the city objects of the ids that match a city, in request order
RECURSIVE SelectCities(_)
SelectCities(ids) ==
    IF ids = <<>> THEN <<>>
    ELSE LET k == FirstIndex("id", Head(ids))
         IN  (IF k # 0 THEN <<AVAILABLE_CITIES[k]>> ELSE <<>>)
                 \o SelectCities(Tail(ids))

\* the route legs built from the selected cities (server.py lines 182-198);
\* the variant starts every leg at the first city
BuildLegsFromFirst(cities) ==
    [i \in 1..(Len(cities) - 1) |->
        LET distance_km == get_distance(cities[1].name, cities[i + 1].name)
        IN  [origin |-> cities[1].name,
             destination |-> cities[i + 1].name,
             distance_km |-> distance_km,
             duration_seconds |-> Round(distance_km * SecondsPerHour, 800)]]
BuildLegs(cities) ==
    [i \in 1..(Len(cities) - 1) |->
        LET distance_km == get_distance(cities[i].name, cities[i + 1].name)
        IN  [origin |-> cities[i].name,
             destination |-> cities[i + 1].name,
             distance_km |-> distance_km,
             duration_seconds |-> Round(distance_km * SecondsPerHour, 800)]]

\* destination_cities: the names of selected_cities[1:]
DestinationCities(cities) ==
    [i \in 1..(Len(cities) - 1) |-> cities[i + 1].name]

RiskColorHex ==
    [red |-> "#ef4444", yellow |-> "#f59e0b", green |-> "#10b981"]

\* the response built from the engine's result (server.py lines 208-255);
\* distance in miles, baseETA and adjustedETA in tenths of an hour
BuildResponse(cities, res) ==
    [status |-> 200,
     summary |-> res.route_summary,
     cities |-> [k \in DOMAIN cities |->
                    [name |-> cities[k].shortName,
                     fullName |-> cities[k].name,
                     lat |-> cities[k].lat, lng |-> cities[k].lng]],
     legs |-> [i \in DOMAIN res.legs |->
        LET leg == res.legs[i]
            from_city == cities[i]
            to_city == cities[i + 1]
            weather == leg.weather
        IN  [from |-> [name |-> from_city.shortName,
                       lat |-> from_city.lat, lng |-> from_city.lng],
             to |-> [name |-> to_city.shortName,
                     lat |-> to_city.lat, lng |-> to_city.lng],
             distance |-> Round(leg.distance_miles, 100),
             baseETA |-> Round(leg.base_eta_hours, 10),
             adjustedETA |-> Round(leg.adjusted_eta_hours, 10),
             risk |-> leg.risk_level,
             riskColor |-> RiskColorHex[leg.risk_color],
             weather |->
                 [icon |-> get_weather_icon(weather.condition,
                                            weather.weather_code),
                  condition |-> weather.condition,
                  temp |-> weather.temperature_celsius,
                  wind |-> weather.wind_speed_kmh,
                  precip |-> weather.precipitation_probability]]]]

ErrorResponse(message) == [status |-> 400, error |-> message]

\* the two validations of the handler: the length of the id list, and the
\* number of city objects found; the variant lets a single city through
TooFewIds(ids) == Len(ids) < 2
InvalidSelectionOnlyEmpty(cities) == Len(cities) < 1
InvalidSelection(cities) == Len(cities) < 2

\* ------------------------------------------ agent.py fetch_real_weather_data
\* The outcome of one runner.run call and of the parsing of its text: the
\* call or the parsing raised, or the text yielded an optional JSON object,
\* optional first matches of the temperature, precipitation, wind and code
\* patterns, and the set of condition words it contains.
Lookup(raised, json, temp, precip, wind, code, words) ==
    [raised |-> raised, json |-> json, temp |-> temp, precip |-> precip,
     wind |-> wind, code |-> code, words |-> words]

LookupOutcomes ==
    {Lookup(TRUE, NoFields, {}, {}, {}, {}, {}),
     Lookup(FALSE, NoFields, {-8}, {80}, {45}, {73}, {"snow"}),
     Lookup(FALSE, [temperature_celsius |-> 12, condition |-> "Sunny"],
            {}, {}, {}, {}, {"sunny"}),
     Lookup(FALSE, NoFields, {}, {75}, {}, {}, {"rain", "cloud"})}

\* destinations: one with coordinates in CITY_COORDINATES, one without
FetchCities == {"London, UK", "Atlantis"}

\* the default observation, used as the starting point of the parsing and
\* as the fallback of the except branch
DefaultObservation(city) ==
    [location |-> city, condition |-> "Unknown",
     precipitation_probability |-> 0, wind_speed_kmh |-> 0,
     temperature_celsius |-> 0, weather_code |-> 0]

\* the first match of a pattern list overrides the value so far
Override(value, match) == IF match = {} THEN value ELSE CHOOSE x \in match : TRUE

\* the if / elif chain over the words of the text (agent.py lines 370-384)
ConditionFromWords(words) ==
    IF words \cap {"clear", "sunny", "fair"} # {} THEN "Clear Sky"
    ELSE IF words \cap {"rain", "rainy", "drizzle", "shower"} # {} THEN "Rain"
    ELSE IF words \cap {"snow", "snowy", "snowing", "blizzard"} # {}
         THEN "Snow"
    ELSE IF words \cap {"cloud", "cloudy", "overcast"} # {} THEN "Cloudy"
    ELSE IF words \cap {"fog", "foggy", "mist"} # {} THEN "Foggy"
    ELSE IF words \cap {"storm", "thunder", "lightning"} # {} THEN "Storm"
    ELSE "Unknown"

\* the try branch: defaults, JSON update, pattern overrides, condition
ParseWeather(city, lookup) ==
    LET d == DefaultObservation(city)
        j == lookup.json
    IN  [location |-> city,
         temperature_celsius |->
             Override(Get(j, "temperature_celsius", d.temperature_celsius),
                      lookup.temp),
         precipitation_probability |->
             Override(Get(j, "precipitation_probability",
                          d.precipitation_probability), lookup.precip),
         wind_speed_kmh |->
             Override(Get(j, "wind_speed_kmh", d.wind_speed_kmh),
                      lookup.wind),
         weather_code |->
             Override(Get(j, "weather_code", d.weather_code), lookup.code),
         condition |-> ConditionFromWords(lookup.words)]

\* what one loop iteration appends to weather_data_list; the variant's
\* except branch appends nothing
AppendedForCitySkipsFailure(city, lookup) ==
    IF lookup.raised THEN <<>> ELSE <<ParseWeather(city, lookup)>>
AppendedForCity(city, lookup) ==
    IF lookup.raised THEN <<DefaultObservation(city)>>
    ELSE <<ParseWeather(city, lookup)>>

\* the list the loop builds, city by city in the order given
RECURSIVE FetchAll(_, _)
FetchAll(cities, outcomes) ==
    IF cities = <<>> THEN <<>>
    ELSE AppendedForCity(Head(cities), Head(outcomes))
             \o FetchAll(Tail(cities), Tail(outcomes))

\* ----------------------------------------------------------- state machine
\* the variables of the handlers that are not running
NoRequest ==
    /\ city_ids = <<>>
    /\ selected_cities = <<>>
    /\ response = None

NoFetch ==
    /\ destination_cities = <<>>
    /\ lookups = <<>>

InitRisk ==
    /\ pc = "risk"
    /\ weather_data \in WeatherObservations
    /\ verdict = None
    /\ legs_data = <<>>
    /\ weather_data_list = <<>>
    /\ result = None
    /\ engine_calls = 0
    /\ NoRequest
    /\ NoFetch

InitMerge ==
    /\ pc = "merge"
    /\ weather_data = NoFields
    /\ verdict = None
    /\ legs_data \in SeqsUpTo(RoutingLegs, MaxLegs)
    /\ weather_data_list \in SeqsUpTo(RouteWeather, MaxLegs)
    /\ result = None
    /\ engine_calls = 0
    /\ NoRequest
    /\ NoFetch

InitOptimize ==
    /\ pc = "optimize"
    /\ weather_data = NoFields
    /\ verdict = None
    /\ legs_data = <<>>
    /\ weather_data_list = <<>>
    /\ result = None
    /\ engine_calls = 0
    /\ city_ids \in SeqsUpTo(CityIds, MaxCities)
    /\ selected_cities = <<>>
    /\ response = None
    /\ NoFetch

InitFetch ==
    /\ pc = "fetch"
    /\ weather_data = NoFields
    /\ verdict = None
    /\ legs_data = <<>>
    /\ weather_data_list = <<>>
    /\ result = None
    /\ engine_calls = 0
    /\ NoRequest
    /\ destination_cities \in SeqsUpTo(FetchCities, MaxCities)
    /\ lookups \in [DOMAIN destination_cities -> LookupOutcomes]

Init == InitRisk \/ InitMerge \/ InitOptimize \/ InitFetch

CalculateRiskScore ==
    /\ pc = "risk"
    /\ verdict' = calculate_risk_score(weather_data)
    /\ pc' = "risk_done"
    /\ UNCHANGED <<weather_data, legs_data, weather_data_list, result,
                   engine_calls, city_ids, selected_cities, response,
                   destination_cities, lookups>>

MergeRouteAndWeather ==
    /\ pc = "merge"
    /\ result' = merge_route_and_weather(legs_data, weather_data_list)
    /\ engine_calls' = engine_calls + 1
    /\ pc' = "merge_done"
    /\ UNCHANGED <<weather_data, verdict, legs_data, weather_data_list,
                   city_ids, selected_cities, response,
                   destination_cities, lookups>>

\* POST /api/optimize with too few ids: 400 before any lookup
OptimizeRouteTooFewIds ==
    /\ pc = "optimize"
    /\ TooFewIds(city_ids)
    /\ response' = ErrorResponse("Please select at least 2 cities")
    /\ pc' = "optimize_done"
    /\ UNCHANGED <<weather_data, verdict, legs_data, weather_data_list,
                   result, engine_calls, city_ids, selected_cities,
                   destination_cities, lookups>>

\* POST /api/optimize with fewer than two ids matching a city: 400
OptimizeRouteInvalidSelection ==
    /\ pc = "optimize"
    /\ ~TooFewIds(city_ids)
    /\ InvalidSelection(SelectCities(city_ids))
    /\ selected_cities' = SelectCities(city_ids)
    /\ response' = ErrorResponse("Invalid city selection")
    /\ pc' = "optimize_done"
    /\ UNCHANGED <<weather_data, verdict, legs_data, weather_data_list,
                   result, engine_calls, city_ids,
                   destination_cities, lookups>>

\* POST /api/optimize with a valid selection: legs, mock weather, the
\* engine's call and the response
OptimizeRouteOk ==
    /\ pc = "optimize"
    /\ ~TooFewIds(city_ids)
    /\ ~InvalidSelection(SelectCities(city_ids))
    /\ LET cities == SelectCities(city_ids)
           legs == BuildLegs(cities)
           dests == DestinationCities(cities)
       IN  \E draws \in [DOMAIN dests -> RandomDraws] :
               LET weather ==
                       [i \in DOMAIN dests |->
                           generate_mock_weather(dests[i], draws[i])]
                   res == merge_route_and_weather(legs, weather)
               IN  /\ selected_cities' = cities
                   /\ legs_data' = legs
                   /\ weather_data_list' = weather
                   /\ result' = res
                   /\ engine_calls' = engine_calls + 1
                   /\ response' = BuildResponse(cities, res)
    /\ pc' = "optimize_done"
    /\ UNCHANGED <<weather_data, verdict, city_ids,
                   destination_cities, lookups>>

\* fetch_real_weather_data: the loop over the destination cities, each
\* iteration awaiting its lookup and appending one observation
FetchRealWeatherData ==
    /\ pc = "fetch"
    /\ weather_data_list' = FetchAll(destination_cities, lookups)
    /\ pc' = "fetch_done"
    /\ UNCHANGED <<weather_data, verdict, legs_data, result,
                   engine_calls, city_ids, selected_cities, response,
                   destination_cities, lookups>>

Next ==
    \/ FetchRealWeatherData
    \/ CalculateRiskScore
    \/ MergeRouteAndWeather
    \/ OptimizeRouteTooFewIds
    \/ OptimizeRouteInvalidSelection
    \/ OptimizeRouteOk

Spec == Init /\ [][Next]_vars

\* ================================================================== claims
\* the observation handed to calculate_risk_score, an absent field read as 0
ObsOr0(w, k) == IF k \in DOMAIN w THEN w[k] ELSE 0
SnowFired(w) ==
    ObsOr0(w, "weather_code") \in {71, 72, 73, 74, 75, 76, 77, 85, 86}
PrecipFired(w) == ObsOr0(w, "precipitation_probability") > 70
WindFired(w) == ObsOr0(w, "wind_speed_kmh") > 40

ExpectedLevel(w) ==
    IF SnowFired(w) \/ PrecipFired(w) THEN "HIGH"
    ELSE IF WindFired(w) THEN "MEDIUM"
    ELSE "LOW"

ExpectedMultiplier(w) ==
    IF SnowFired(w) THEN 140
    ELSE IF PrecipFired(w) THEN 130
    ELSE IF WindFired(w) THEN 115
    ELSE 100

ExpectedFactors(w) ==
    LET fired ==
            (IF SnowFired(w) THEN << <<"Snow/ice conditions">> >> ELSE <<>>)
            \o (IF PrecipFired(w)
                THEN << <<"High precipitation (",
                          ObsOr0(w, "precipitation_probability"), "%)">> >>
                ELSE <<>>)
            \o (IF WindFired(w)
                THEN << <<"High winds (",
                          ObsOr0(w, "wind_speed_kmh"), " km/h)">> >>
                ELSE <<>>)
    IN  IF fired = <<>> THEN << <<"Clear conditions">> >> ELSE fired

ColorOf(level) ==
    CASE level = "HIGH" -> "red"
      [] level = "MEDIUM" -> "yellow"
      [] level = "LOW" -> "green"

\* C1: the verdict's risk level is HIGH exactly when the weather code is a
\* snow/ice code or precipitation probability is above 70, MEDIUM exactly
\* when neither holds and wind speed is above 40, and LOW otherwise; wind
\* above 40 never turns a HIGH verdict into MEDIUM.
C1_RiskLevel ==
    pc = "risk_done" => verdict.risk_level = ExpectedLevel(weather_data)

C1_Witness ==
    /\ pc = "risk_done"
    /\ WindFired(weather_data)
    /\ PrecipFired(weather_data)
    /\ ~SnowFired(weather_data)
    /\ verdict.risk_level = "HIGH"

\* C2: the verdict's multiplier is at least 1.0 and is the largest candidate
\* among the checks that fired (1.40 snow/ice, 1.30 precipitation, 1.15
\* wind), 1.0 when none fired, and so 1.40 when all three fire.
C2_MultiplierIsMax ==
    pc = "risk_done" =>
        /\ verdict.risk_multiplier >= 100
        /\ verdict.risk_multiplier = ExpectedMultiplier(weather_data)

C2_Witness ==
    /\ pc = "risk_done"
    /\ SnowFired(weather_data)
    /\ PrecipFired(weather_data)
    /\ WindFired(weather_data)
    /\ verdict.risk_multiplier = 140

\* C3: risk_factors lists one factor string for each check that fired, in
\* the order snow/ice, precipitation, wind, and nothing else; it is the
\* single factor "Clear conditions" exactly when no check fired, and it is
\* never empty.
C3_RiskFactors ==
    pc = "risk_done" =>
        /\ verdict.risk_factors = ExpectedFactors(weather_data)
        /\ verdict.risk_factors # <<>>
        /\ (verdict.risk_factors = << <<"Clear conditions">> >>)
               <=> ~(SnowFired(weather_data) \/ PrecipFired(weather_data)
                       \/ WindFired(weather_data))

C3_Witness ==
    /\ pc = "risk_done"
    /\ SnowFired(weather_data)
    /\ WindFired(weather_data)
    /\ ~PrecipFired(weather_data)
    /\ verdict.risk_level = "HIGH"
    /\ Len(verdict.risk_factors) = 2
    /\ verdict.risk_factors[2][1] = "High winds ("

\* C4: in every verdict and in every leg result the colour is the colour of
\* the level: HIGH red, MEDIUM yellow, LOW green.
C4_ColorOfLevel ==
    /\ pc = "risk_done" => verdict.risk_color = ColorOf(verdict.risk_level)
    /\ pc = "merge_done" =>
           \A i \in DOMAIN result.legs :
               result.legs[i].risk_color = ColorOf(result.legs[i].risk_level)

C4_Witness ==
    /\ pc = "merge_done"
    /\ \E i \in DOMAIN result.legs :
           /\ WindFired(weather_data_list[i])
           /\ result.legs[i].risk_level = "HIGH"
           /\ result.legs[i].risk_color = "red"

\* r is a nearest integer to num / den (den > 0)
IsNearest(r, num, den) ==
    /\ 2 * (r * den - num) <= den
    /\ 2 * (num - r * den) <= den

LegOr(leg, k, default) == IF k \in DOMAIN leg THEN leg[k] ELSE default

LegsAtLevel(level) ==
    Cardinality({i \in DOMAIN result.legs : result.legs[i].risk_level = level})

\* C5: the merge returns min(len(legs), len(weather)) leg results; result i
\* has leg_number i and is built from input leg i and observation i, so
\* equal-length inputs give a result of that length and order, and unequal
\* ones give the overlapping prefix.
C5_PositionalPairing ==
    pc = "merge_done" =>
        /\ Len(result.legs) =
               (IF Len(legs_data) <= Len(weather_data_list)
                THEN Len(legs_data) ELSE Len(weather_data_list))
        /\ Len(legs_data) = Len(weather_data_list) =>
               Len(result.legs) = Len(legs_data)
        /\ \A i \in 1..Len(result.legs) :
               /\ result.legs[i].leg_number = i
               /\ result.legs[i].from = LegOr(legs_data[i], "origin", None)
               /\ result.legs[i].to = LegOr(legs_data[i], "destination", None)
               /\ result.legs[i].base_duration_seconds =
                      LegOr(legs_data[i], "duration_seconds", 0)
               /\ result.legs[i].distance_km =
                      100 * LegOr(legs_data[i], "distance_km", 0)
               /\ result.legs[i].weather.precipitation_probability =
                      ObsOr0(weather_data_list[i], "precipitation_probability")
               /\ result.legs[i].weather.wind_speed_kmh =
                      ObsOr0(weather_data_list[i], "wind_speed_kmh")
               /\ result.legs[i].weather.weather_code =
                      ObsOr0(weather_data_list[i], "weather_code")
               /\ result.legs[i].risk_level =
                      ExpectedLevel(weather_data_list[i])
               /\ result.legs[i].risk_multiplier =
                      ExpectedMultiplier(weather_data_list[i])

C5_Witness ==
    /\ pc = "merge_done"
    /\ Len(legs_data) > Len(weather_data_list)
    /\ Len(result.legs) = 2
    /\ result.legs[2].leg_number = 2
    /\ result.legs[1].risk_level # result.legs[2].risk_level
    /\ result.legs[1].from # result.legs[2].from

\* C6: overall_risk is HIGH when at least two legs are HIGH; otherwise
\* MEDIUM when at least one leg is HIGH or at least three are MEDIUM;
\* otherwise LOW.  A single HIGH leg gives MEDIUM, no leg gives LOW.
C6_OverallRiskPolicy ==
    pc = "merge_done" =>
        /\ result.route_summary.overall_risk =
               (IF LegsAtLevel("HIGH") >= 2 THEN "HIGH"
                ELSE IF LegsAtLevel("HIGH") >= 1 \/ LegsAtLevel("MEDIUM") >= 3
                     THEN "MEDIUM"
                ELSE "LOW")
        /\ (Len(result.legs) = 1 /\ result.legs[1].risk_level = "HIGH")
               => result.route_summary.overall_risk = "MEDIUM"
        /\ Len(result.legs) = 0 => result.route_summary.overall_risk = "LOW"

C6_Witness ==
    /\ pc = "merge_done"
    /\ Len(result.legs) = 1
    /\ result.legs[1].risk_level = "HIGH"
    /\ result.route_summary.overall_risk = "MEDIUM"

\* the sums of the legs' unrounded values: hours over 360000, miles over
\* 1000000
UnroundedBaseEtaSum ==
    SumSeq([i \in DOMAIN result.legs |->
        100 * LegOr(legs_data[i], "duration_seconds", 0)])
UnroundedAdjustedEtaSum ==
    SumSeq([i \in DOMAIN result.legs |->
        LegOr(legs_data[i], "duration_seconds", 0)
            * result.legs[i].risk_multiplier])
UnroundedMilesSum ==
    SumSeq([i \in DOMAIN result.legs |->
        621371 * LegOr(legs_data[i], "distance_km", 0)])

\* C7: total_distance_miles, total_base_eta_hours and
\* total_adjusted_eta_hours are the sums of the legs' unrounded values,
\* rounded once to 2 decimals; the legs' rounded values do not enter them.
C7_TotalsFromUnrounded ==
    pc = "merge_done" =>
        /\ IsNearest(result.route_summary.total_base_eta_hours,
                     UnroundedBaseEtaSum, 3600)
        /\ IsNearest(result.route_summary.total_adjusted_eta_hours,
                     UnroundedAdjustedEtaSum, 3600)
        /\ IsNearest(result.route_summary.total_distance_miles,
                     UnroundedMilesSum, 10000)

\* C8: per leg, adjusted seconds = base seconds x multiplier, adjusted ETA =
\* adjusted seconds / 3600, base ETA = base seconds / 3600 and delay =
\* adjusted ETA - base ETA on the unrounded values; every reported field is
\* the rounding of its own unrounded value.
C8_LegTimingsRoundedOnce ==
    pc = "merge_done" =>
        \A i \in DOMAIN result.legs :
            LET d == LegOr(legs_data[i], "duration_seconds", 0)
                m == result.legs[i].risk_multiplier
            IN  /\ result.legs[i].base_duration_seconds = d
                /\ IsNearest(result.legs[i].adjusted_duration_seconds,
                             d * m, 100)
                /\ IsNearest(result.legs[i].adjusted_eta_hours, d * m, 3600)
                /\ IsNearest(result.legs[i].base_eta_hours, d * 100, 3600)
                /\ IsNearest(result.legs[i].delay_hours,
                             d * m - d * 100, 3600)

C8_Witness ==
    /\ pc = "merge_done"
    /\ \E i \in DOMAIN result.legs :
           /\ result.legs[i].risk_multiplier = 140
           /\ result.legs[i].base_duration_seconds = 15
           /\ result.legs[i].delay_hours #
                  result.legs[i].adjusted_eta_hours
                      - result.legs[i].base_eta_hours

\* C9: total_delay_hours is total_adjusted_eta_hours - total_base_eta_hours
\* of the route totals; it is not the sum of the legs' rounded delay_hours.
C9_TotalDelayIsDifference ==
    pc = "merge_done" =>
        result.route_summary.total_delay_hours =
            result.route_summary.total_adjusted_eta_hours
                - result.route_summary.total_base_eta_hours

C9_Witness ==
    /\ pc = "merge_done"
    /\ Len(result.legs) >= 2
    /\ result.route_summary.total_delay_hours #
           SumSeq([i \in DOMAIN result.legs |-> result.legs[i].delay_hours])

\* C10: calculate_risk_score returns a verdict for an observation lacking
\* any of its fields, reading each absent field as 0, so the observation
\* without fields is LOW / green / 1.0 / "Clear conditions"; the merge
\* echoes an absent condition as "Unknown" and absent numbers as 0.
C10_AbsentFieldsDefault ==
    /\ pc = "risk_done" =>
           /\ verdict.risk_level = ExpectedLevel(weather_data)
           /\ verdict.risk_color = ColorOf(ExpectedLevel(weather_data))
           /\ verdict.risk_multiplier = ExpectedMultiplier(weather_data)
           /\ verdict.risk_factors = ExpectedFactors(weather_data)
           /\ DOMAIN weather_data = {} =>
                  verdict = [risk_level |-> "LOW", risk_color |-> "green",
                             risk_multiplier |-> 100,
                             risk_factors |-> << <<"Clear conditions">> >>]
    /\ pc = "merge_done" =>
           \A i \in DOMAIN result.legs :
               LET w == weather_data_list[i]
                   echo == result.legs[i].weather
               IN  /\ echo.precipitation_probability =
                          ObsOr0(w, "precipitation_probability")
                   /\ echo.wind_speed_kmh = ObsOr0(w, "wind_speed_kmh")
                   /\ echo.weather_code = ObsOr0(w, "weather_code")
                   /\ echo.temperature_celsius =
                          ObsOr0(w, "temperature_celsius")
                   /\ echo.condition =
                          (IF "condition" \in DOMAIN w THEN w.condition
                           ELSE "Unknown")

C10_Witness ==
    /\ pc = "merge_done"
    /\ \E i \in DOMAIN result.legs :
           /\ DOMAIN weather_data_list[i] = {}
           /\ result.legs[i].weather.condition = "Unknown"
           /\ result.legs[i].weather.weather_code = 0
           /\ result.legs[i].risk_factors = << <<"Clear conditions">> >>

\* C11: in every leg result the echoed weather block carries the paired
\* observation's temperature, condition and location through unmodified; the
\* echoed location is the observation's own location.
C11_EchoUnmodified ==
    pc = "merge_done" =>
        \A i \in DOMAIN result.legs :
            LET w == weather_data_list[i]
                echo == result.legs[i].weather
            IN  /\ "temperature_celsius" \in DOMAIN w =>
                       echo.temperature_celsius = w.temperature_celsius
                /\ "condition" \in DOMAIN w => echo.condition = w.condition
                /\ "location" \in DOMAIN w => echo.location = w.location

\* C16: level and multiplier are coupled in every verdict: LOW exactly when
\* the multiplier is 1.0, MEDIUM only with 1.15, HIGH only with 1.30 or
\* 1.40, and never HIGH with 1.15.
C16_LevelMultiplierCoupling ==
    pc = "risk_done" =>
        /\ (verdict.risk_level = "LOW") <=> (verdict.risk_multiplier = 100)
        /\ verdict.risk_level = "MEDIUM" => verdict.risk_multiplier = 115
        /\ verdict.risk_level = "HIGH" =>
               verdict.risk_multiplier \in {130, 140}
        /\ ~(verdict.risk_level = "HIGH" /\ verdict.risk_multiplier = 115)

C16_Witness ==
    /\ pc = "risk_done"
    /\ SnowFired(weather_data)
    /\ ~PrecipFired(weather_data)
    /\ WindFired(weather_data)
    /\ verdict.risk_level = "HIGH"
    /\ verdict.risk_multiplier = 140

\* C17: the summary counts partition the leg results: each count is the
\* number of returned legs at that level and the three add up to the number
\* of legs returned.
C17_CountsPartition ==
    pc = "merge_done" =>
        /\ result.route_summary.high_risk_legs = LegsAtLevel("HIGH")
        /\ result.route_summary.medium_risk_legs = LegsAtLevel("MEDIUM")
        /\ result.route_summary.low_risk_legs = LegsAtLevel("LOW")
        /\ result.route_summary.high_risk_legs
               + result.route_summary.medium_risk_legs
               + result.route_summary.low_risk_legs = Len(result.legs)

C17_Witness ==
    /\ pc = "merge_done"
    /\ Len(result.legs) = 3
    /\ result.route_summary.high_risk_legs = 1
    /\ result.route_summary.medium_risk_legs = 1
    /\ result.route_summary.low_risk_legs = 1

OthersBlanked(s, i) == [k \in DOMAIN s |-> IF k = i THEN s[k] ELSE NoFields]

\* C14: the merge is deterministic and per-leg independent: leg result i
\* depends only on input leg i, observation i and i, so replacing the other
\* legs and observations (here: all of them, by empty ones) leaves leg
\* result i unchanged; the call leaves its two input sequences as they were.
C14_LegIndependence ==
    /\ [](pc = "merge_done" =>
            \A i \in DOMAIN result.legs :
                /\ MergedLegs(OthersBlanked(legs_data, i),
                              weather_data_list)[i] = result.legs[i]
                /\ MergedLegs(legs_data,
                              OthersBlanked(weather_data_list, i))[i]
                       = result.legs[i]
                /\ MergedLegs(OthersBlanked(legs_data, i),
                              OthersBlanked(weather_data_list, i))[i]
                       = result.legs[i])
    /\ [][pc = "merge" =>
            /\ legs_data' = legs_data
            /\ weather_data_list' = weather_data_list]_vars

C14_Witness ==
    /\ pc = "merge_done"
    /\ Len(result.legs) = 2
    /\ Len(weather_data_list) = 3
    /\ result.legs[1].risk_level = "LOW"
    /\ result.legs[2].risk_level = "HIGH"
    /\ legs_data[1] # legs_data[2]

\* the ids of a request that name a city, in request order, and their names
IsKnownId(x) == x \in {"london", "paris"}
KnownIds == SelectSeq(city_ids, IsKnownId)
NameOfId(x) == IF x = "london" THEN "London, UK" ELSE "Paris, France"
ShortNameOfId(x) == IF x = "london" THEN "London" ELSE "Paris"

\* C12: the /api/optimize handler validates before it calls the engine: a
\* request with fewer than two ids, or fewer than two ids matching a known
\* city, gets status 400 and merge_route_and_weather is not called; the
\* engine is only called with at least one leg.
C12_ValidatedBeforeEngine ==
    pc = "optimize_done" =>
        /\ (Len(city_ids) < 2 \/ Len(KnownIds) < 2) =>
               /\ response.status = 400
               /\ engine_calls = 0
        /\ engine_calls > 0 => Len(legs_data) >= 1

C12_Witness ==
    /\ pc = "optimize_done"
    /\ Len(city_ids) = 3
    /\ Len(KnownIds) = 1
    /\ response.status = 400
    /\ engine_calls = 0

\* C15: a request that passes validation with n >= 2 recognised cities
\* (unknown ids dropped, order and duplicates kept) hands the engine n-1
\* legs and n-1 observations, leg i from city i to city i+1 with the
\* observation of city i+1; nothing is truncated and the response has n-1
\* legs and n cities.
C15_LegsMatchSelection ==
    (pc = "optimize_done" /\ Len(KnownIds) >= 2) =>
        LET n == Len(KnownIds)
        IN  /\ response.status = 200
            /\ engine_calls = 1
            /\ Len(selected_cities) = n
            /\ Len(legs_data) = n - 1
            /\ Len(weather_data_list) = n - 1
            /\ Len(result.legs) = n - 1
            /\ Len(response.legs) = n - 1
            /\ Len(response.cities) = n
            /\ \A k \in 1..n :
                   /\ selected_cities[k].id = KnownIds[k]
                   /\ response.cities[k].fullName = NameOfId(KnownIds[k])
            /\ \A i \in 1..(n - 1) :
                   /\ legs_data[i].origin = NameOfId(KnownIds[i])
                   /\ legs_data[i].destination = NameOfId(KnownIds[i + 1])
                   /\ weather_data_list[i].location =
                          NameOfId(KnownIds[i + 1])
                   /\ result.legs[i].from = NameOfId(KnownIds[i])
                   /\ result.legs[i].to = NameOfId(KnownIds[i + 1])
                   /\ response.legs[i].from.name =
                          ShortNameOfId(KnownIds[i])
                   /\ response.legs[i].to.name =
                          ShortNameOfId(KnownIds[i + 1])

C15_Witness ==
    /\ pc = "optimize_done"
    /\ city_ids = <<"paris", "atlantis", "london", "london">>
    /\ Len(response.legs) = 2
    /\ Len(response.cities) = 3
    /\ response.legs[2].from.name = "London"
    /\ response.legs[2].to.name = "London"

\* C13: fetch_real_weather_data returns one observation per destination
\* city, in the order of the cities, whatever lookups fail: a failed lookup
\* yields the default observation for that city ("Unknown", zeros, location
\* the city) and the lookups of the later cities still run.
C13_OneObservationPerCity ==
    pc = "fetch_done" =>
        /\ Len(weather_data_list) = Len(destination_cities)
        /\ \A i \in DOMAIN destination_cities :
               /\ weather_data_list[i].location = destination_cities[i]
               /\ lookups[i].raised =>
                      weather_data_list[i] =
                          [location |-> destination_cities[i],
                           condition |-> "Unknown",
                           precipitation_probability |-> 0,
                           wind_speed_kmh |-> 0,
                           temperature_celsius |-> 0,
                           weather_code |-> 0]
               /\ (~lookups[i].raised /\ lookups[i].code # {}) =>
                      {weather_data_list[i].weather_code} = lookups[i].code

C13_Witness ==
    /\ pc = "fetch_done"
    /\ Len(destination_cities) = 3
    /\ destination_cities[1] # destination_cities[2]
    /\ lookups[1].raised
    /\ ~lookups[2].raised
    /\ lookups[3].raised
    /\ weather_data_list[1].condition = "Unknown"
    /\ weather_data_list[2].condition = "Snow"
    /\ weather_data_list[2].weather_code = 73

====
